---- MODULE Spec2Model ----
(***************************************************************************)
(* docker-leash: the policy store (docker_leash/config.py, class Config)   *)
(* and the container-name check plugin (exercised by                       *)
(* tests/checks/test_container_name.py).                                   *)
(*                                                                         *)
(* Text that is pattern-matched (hostnames, host rules, container names,   *)
(* name patterns) is a sequence of one-character strings, so that          *)
(* re.match, the sign prefix and the $USER substitution are computed.      *)
(* Text that is only compared or looked up (group names, user names of the *)
(* policy store, action names, check names) is a plain string.             *)
(***************************************************************************)
EXTENDS Integers, Sequences, FiniteSets, TLC

VARIABLES
    groups,     \* Config.groups: None or a dict group name -> members
    policies,   \* Config.policies: None or the list of policy rules
    updates,    \* history: the (groups, policies) arguments of every update call
    call,       \* the last call made on the object under test, with its outcome
    upd,        \* position and arguments of a thread running Config.update
    rdr         \* position and locals of a thread running Config.get_rules

vars == <<groups, policies, updates, call, upd, rdr>>

(***************************************************************************)
(* Bounds of the model.                                                    *)
(***************************************************************************)
MaxHostRules == 3
MaxChecks == 1
MaxUpdates == 2
MaxRules == 2
MaxPolicies == 2
MaxPatterns == 2

(***************************************************************************)
(* Python values.                                                          *)
(***************************************************************************)
\* Python's None and a present value; x.some tells them apart.
None == [some |-> FALSE]
Some(x) == [some |-> TRUE, v |-> x]

\* Truth value of an optional dict or list: `if groups:`, `if policies:`.
\* None, {} and [] are all false.
Truthy(x) == x.some /\ DOMAIN x.v # {}

\* All lists of length 0..n over S.
SeqsUpTo(S, n) == UNION {[1..k -> S] : k \in 0..n}

\* The tail of a list from position k: s[k-1:] in Python.
Tail_(s, k) == SubSeq(s, k, Len(s))

(***************************************************************************)
(* re.match(regex, string): the pattern must match at the start of the     *)
(* string, and need not reach its end.  The patterns are those built from  *)
(* literal characters, '.', the anchors '^' and '$', a backslash escape    *)
(* and the postfix repetitions '*' and '+'.                                *)
(***************************************************************************)
RECURSIVE ReMatchAt(_, _, _, _)
ReMatchAt(p, i, s, j) ==
    IF i > Len(p) THEN TRUE
    ELSE IF p[i] = "^" THEN j = 1 /\ ReMatchAt(p, i + 1, s, j)
    ELSE IF p[i] = "$" THEN j = Len(s) + 1 /\ ReMatchAt(p, i + 1, s, j)
    ELSE
      LET w == IF p[i] = "\\" THEN 2 ELSE 1
          lit == IF w = 2 THEN p[i + 1] ELSE p[i]
          any == w = 1 /\ p[i] = "."
          ok(k) == k <= Len(s) /\ (any \/ s[k] = lit)
          q == IF i + w <= Len(p) THEN p[i + w] ELSE ""
          rep(lo) == \E n \in lo..(Len(s) - j + 1) :
                        /\ \A k \in j..(j + n - 1) : ok(k)
                        /\ ReMatchAt(p, i + w + 1, s, j + n)
      IN  IF q = "*" THEN rep(0)
          ELSE IF q = "+" THEN rep(1)
          ELSE ok(j) /\ ReMatchAt(p, i + w, s, j + 1)

re_match(regex, string) == ReMatchAt(regex, 1, string, 1)

(***************************************************************************)
(* Config._match_host                                                      *)
(***************************************************************************)
\* An outcome of a call: a returned value, or a raised exception.
Return(x) == [exc |-> "", ret |-> x]
Raise(e) == [exc |-> e, ret |-> FALSE]

\* A broken loop body: a matching '-' entry leaves the match state alone.
RECURSIVE MatchHostLoop_first_wins(_, _, _, _)
MatchHostLoop_first_wins(hostname, host_rules, k, match) ==
    IF k > Len(host_rules) THEN Return(match)
    ELSE
      LET hosts_reg == host_rules[k]
          mode == hosts_reg[1]
          regex == Tail_(hosts_reg, 2)
      IN  IF mode = "+" THEN
            MatchHostLoop_first_wins(hostname, host_rules, k + 1,
                          IF re_match(regex, hostname) THEN TRUE ELSE match)
          ELSE IF mode = "-" THEN
            MatchHostLoop_first_wins(hostname, host_rules, k + 1,
                          IF re_match(regex, hostname) /\ ~match THEN FALSE ELSE match)
          ELSE Raise("ConfigurationException")

\* A broken loop body: an entry without a sign is skipped.
RECURSIVE MatchHostLoop_skip_unsigned(_, _, _, _)
MatchHostLoop_skip_unsigned(hostname, host_rules, k, match) ==
    IF k > Len(host_rules) THEN Return(match)
    ELSE
      LET hosts_reg == host_rules[k]
          mode == hosts_reg[1]
          regex == Tail_(hosts_reg, 2)
      IN  IF mode = "+" THEN
            MatchHostLoop_skip_unsigned(hostname, host_rules, k + 1,
                          IF re_match(regex, hostname) THEN TRUE ELSE match)
          ELSE IF mode = "-" THEN
            MatchHostLoop_skip_unsigned(hostname, host_rules, k + 1,
                          IF re_match(regex, hostname) THEN FALSE ELSE match)
          ELSE MatchHostLoop_skip_unsigned(hostname, host_rules, k + 1, match)

\* The for loop of _match_host from entry k on, with the current match state.
RECURSIVE MatchHostLoop(_, _, _, _)
MatchHostLoop(hostname, host_rules, k, match) ==
    IF k > Len(host_rules) THEN Return(match)
    ELSE
      LET hosts_reg == host_rules[k]
          mode == hosts_reg[1]
          regex == Tail_(hosts_reg, 2)
      IN  IF mode = "+" THEN
            MatchHostLoop(hostname, host_rules, k + 1,
                          IF re_match(regex, hostname) THEN TRUE ELSE match)
          ELSE IF mode = "-" THEN
            MatchHostLoop(hostname, host_rules, k + 1,
                          IF re_match(regex, hostname) THEN FALSE ELSE match)
          ELSE Raise("ConfigurationException")

_match_host(hostname, host_rules) == MatchHostLoop(hostname, host_rules, 1, FALSE)

(***************************************************************************)
(* Calls of _match_host on its own: every hostname against every short     *)
(* list of host rules.  The entries are non-empty and their patterns are   *)
(* well-formed regular expressions.                                        *)
(***************************************************************************)
Hostnames == { <<"w">>, <<"d">>, <<"w", "d">> }

SignedHostEntries ==
    { <<"+", ".", "*">>, <<"-", ".", "*">>,
      <<"+", "w">>, <<"-", "w">>, <<"-", "d">>,
      <<"+", "w", "$">>, <<"-", "^", "w", ".", "+">> }

UnsignedHostEntries == { <<"w">>, <<".", "*">>, <<"d", "+">> }

HostEntries == SignedHostEntries \cup UnsignedHostEntries

\* The state of the variables no thread and no update call has touched.
NoCall == [op |-> "", state |-> "idle"]
Idle == [pc |-> "idle"]

InitMatchHost ==
    /\ groups = None
    /\ policies = None
    /\ updates = <<>>
    /\ upd = Idle
    /\ rdr = Idle
    /\ call \in [op : {"_match_host"}, state : {"called"},
                 hostname : Hostnames,
                 host_rules : SeqsUpTo(HostEntries, MaxHostRules),
                 result : {Return(FALSE)}]

MatchHostReturn ==
    /\ call.op = "_match_host"
    /\ call.state = "called"
    /\ call' = [call EXCEPT !.state = "returned",
                            !.result = _match_host(call.hostname, call.host_rules)]
    /\ UNCHANGED <<groups, policies, updates, upd, rdr>>

NextMatchHost == MatchHostReturn

SpecMatchHost == InitMatchHost /\ [][NextMatchHost]_vars

\* The entries of a list of host rules that carry a sign.
Signed(host_rules) ==
    { k \in 1..Len(host_rules) : host_rules[k][1] \in {"+", "-"} }

\* The entries whose pattern (the entry without its sign) matches the hostname.
MatchingEntries(hostname, host_rules) ==
    { k \in Signed(host_rules) : re_match(Tail_(host_rules[k], 2), hostname) }

Last(S) == CHOOSE k \in S : \A m \in S : m <= k

MatchHostReturned == call.op = "_match_host" /\ call.state = "returned"

\* C5: when every entry of the host rules is signed, _match_host returns true
\* exactly when the last entry whose pattern matches the hostname carries '+';
\* it returns false when that entry carries '-' and when no entry matches.
C5_LastMatchingSignWins ==
    (MatchHostReturned /\ Signed(call.host_rules) = 1..Len(call.host_rules)) =>
        LET M == MatchingEntries(call.hostname, call.host_rules)
        IN  call.result =
              Return(M # {} /\ call.host_rules[Last(M)][1] = "+")

\* A '+' entry matched and a later '-' entry matched too: the answer is false.
C5_Witness ==
    /\ MatchHostReturned
    /\ Signed(call.host_rules) = 1..Len(call.host_rules)
    /\ \E a, b \in MatchingEntries(call.hostname, call.host_rules) :
          /\ a < b
          /\ call.host_rules[a][1] = "+"
          /\ call.host_rules[b][1] = "-"
          /\ b = Last(MatchingEntries(call.hostname, call.host_rules))
    /\ call.result = Return(FALSE)

\* C6: when some entry of the host rules has no sign, _match_host raises
\* ConfigurationException, wherever the entry is and whatever the others match.
C6_UnsignedRaises ==
    (MatchHostReturned /\ Signed(call.host_rules) # 1..Len(call.host_rules)) =>
        call.result = Raise("ConfigurationException")

\* The unsigned entry is the last one and follows a '+' entry that matched.
C6_Witness ==
    /\ MatchHostReturned
    /\ Len(call.host_rules) >= 2
    /\ Signed(call.host_rules) = 1..(Len(call.host_rules) - 1)
    /\ \E a \in MatchingEntries(call.hostname, call.host_rules) :
          call.host_rules[a][1] = "+"
    /\ call.result = Raise("ConfigurationException")

(***************************************************************************)
(* Checks (docker_leash/checks_list.py): an ordered list of checks, each a *)
(* check name with its arguments, built by appending.                      *)
(***************************************************************************)
Checks == <<>>

ChecksAdd(checks, data) == Append(checks, data)

\* `not rules`: a Checks object is false when it holds no check.
ChecksEmpty(checks) == Len(checks) = 0

\* for check, args in d.iteritems(): checks.add({check: args}); a dict of
\* checks is the list of its items in iteration order.
RECURSIVE AddItems(_, _, _)
AddItems(checks, items, k) ==
    IF k > Len(items) THEN checks
    ELSE AddItems(ChecksAdd(checks, items[k]), items, k + 1)

(***************************************************************************)
(* Config._match_rules                                                     *)
(***************************************************************************)
\* The order of the method's docstring: exact name, "any", then the parent.
MatchRules_any_before_parent(action, actions) ==
    LET action_name == action.name
        parent_action == action.namespace_name
    IN  IF action_name \in DOMAIN actions THEN
            AddItems(Checks, actions[action_name], 1)
        ELSE IF "any" \in DOMAIN actions THEN
            AddItems(Checks, actions["any"], 1)
        ELSE IF parent_action \in DOMAIN actions THEN
            AddItems(Checks, actions[parent_action], 1)
        ELSE Checks

_match_rules(action, actions) ==
    LET action_name == action.name
        parent_action == action.namespace_name
    IN  IF action_name \in DOMAIN actions THEN
            AddItems(Checks, actions[action_name], 1)
        ELSE IF parent_action \in DOMAIN actions THEN
            AddItems(Checks, actions[parent_action], 1)
        ELSE IF "any" \in DOMAIN actions THEN
            AddItems(Checks, actions["any"], 1)
        ELSE Checks

(***************************************************************************)
(* Calls of _match_rules on its own: every action against every mapping    *)
(* from a few action keys to short lists of checks.                        *)
(***************************************************************************)
\* Action: the name of the operation and the name of its namespace.
Actions ==
    { [name |-> "containersCreate", namespace_name |-> "containers"],
      [name |-> "imagesList", namespace_name |-> "images"] }

ActionKeys == {"containersCreate", "containers", "any", "imagesList"}

CheckItems ==
    { [check |-> "ContainerName", args |-> "^$USER-.*"],
      [check |-> "Allow", args |-> "None"],
      [check |-> "Deny", args |-> "None"] }

CheckLists == SeqsUpTo(CheckItems, MaxChecks)

\* Every dict from some of the keys K to values in V.
Dicts(K, V) == UNION { [D -> V] : D \in SUBSET K }

InitMatchRules ==
    /\ groups = None
    /\ policies = None
    /\ updates = <<>>
    /\ upd = Idle
    /\ rdr = Idle
    /\ call \in [op : {"_match_rules"}, state : {"called"},
                 action : Actions,
                 actions : Dicts(ActionKeys, CheckLists),
                 result : {Checks}]

MatchRulesReturn ==
    /\ call.op = "_match_rules"
    /\ call.state = "called"
    /\ call' = [call EXCEPT !.state = "returned",
                            !.result = _match_rules(call.action, call.actions)]
    /\ UNCHANGED <<groups, policies, updates, upd, rdr>>

NextMatchRules == MatchRulesReturn

SpecMatchRules == InitMatchRules /\ [][NextMatchRules]_vars

\* The three keys an action is looked up under, highest tier first.
Tiers(action) == <<action.name, action.namespace_name, "any">>

PresentTiers(action, actions) ==
    { t \in 1..3 : Tiers(action)[t] \in DOMAIN actions }

First(S) == CHOOSE k \in S : \A m \in S : k <= m

MatchRulesReturned == call.op = "_match_rules" /\ call.state = "returned"

IsMember_anonymous_any(table, username, group) ==
    /\ group \in DOMAIN table
    /\ \/ (username.some /\ username.v \in table[group])
       \/ "*" \in table[group]
       \/ "Anonymous" \in table[group]

\* Lines 147-150: the group exists and holds the user name, or "*", or
\* "Anonymous" while the user name is None.  Members are strings, so None is
\* never found by `username in self.groups[group]`.
IsMember(table, username, group) ==
    /\ group \in DOMAIN table
    /\ \/ (username.some /\ username.v \in table[group])
       \/ "*" \in table[group]
       \/ (~username.some /\ "Anonymous" \in table[group])

\* The two nested for loops, from member m of policy p on.  With
\* self.groups None, `group in self.groups` raises TypeError.
RECURSIVE PolicyLoop(_, _, _, _, _)
PolicyLoop(self_groups, username, pols, p, m) ==
    IF p > Len(pols) THEN Return(None)
    ELSE IF m > Len(pols[p].members) THEN
        PolicyLoop(self_groups, username, pols, p + 1, 1)
    ELSE IF ~self_groups.some THEN Raise("TypeError")
    ELSE IF IsMember(self_groups.v, username, pols[p].members[m]) THEN
        Return(Some(pols[p].rules))
    ELSE PolicyLoop(self_groups, username, pols, p, m + 1)

_get_policy_by_member(self_groups, username, pols) ==
    PolicyLoop(self_groups, username, pols, 1, 1)

(***************************************************************************)
(* Calls of _get_policy_by_member on its own: every caller against every   *)
(* group table and every short list of policies.                           *)
(***************************************************************************)
Usernames == { None, Some("alice"), Some("bob"), Some("Anonymous") }

MemberSets == { {}, {"alice"}, {"*"}, {"Anonymous"} }

GroupTables == Dicts({"admins", "guests"}, MemberSets)

MemberLists ==
    { <<>>, <<"admins">>, <<"guests">>, <<"nogroup", "guests">>,
      <<"admins", "guests">> }

\* Two dicts of actions that tell the policies apart.
RulesA == [containersCreate |-> <<[check |-> "ContainerName", args |-> "^$USER-.*"]>>]
RulesB == [any |-> <<[check |-> "Allow", args |-> "None"]>>]

Policies == [members : MemberLists, rules : {RulesA, RulesB}]

InitPolicy ==
    /\ groups \in {None} \cup {Some(t) : t \in GroupTables}
    /\ policies = None
    /\ updates = <<>>
    /\ upd = Idle
    /\ rdr = Idle
    /\ call \in [op : {"_get_policy_by_member"}, state : {"called"},
                 username : Usernames,
                 policies : SeqsUpTo(Policies, MaxPolicies),
                 result : {Return(None)}]

GetPolicyByMemberReturn ==
    /\ call.op = "_get_policy_by_member"
    /\ call.state = "called"
    /\ call' = [call EXCEPT !.state = "returned",
                  !.result = _get_policy_by_member(groups, call.username, call.policies)]
    /\ UNCHANGED <<groups, policies, updates, upd, rdr>>

NextPolicy == GetPolicyByMemberReturn

SpecPolicy == InitPolicy /\ [][NextPolicy]_vars

\* The claim's own words: the policy has a member group whose member set holds
\* the user name literally, or "*", or "Anonymous" while the caller is anonymous.
PolicyMatches(table, username, policy) ==
    \E m \in 1..Len(policy.members) :
        LET g == policy.members[m]
        IN  /\ g \in DOMAIN table
            /\ \/ \E u \in table[g] : username = Some(u)
               \/ "*" \in table[g]
               \/ (username = None /\ "Anonymous" \in table[g])

MatchingPolicies(table, username, pols) ==
    { p \in 1..Len(pols) : PolicyMatches(table, username, pols[p]) }

GetPolicyReturned == call.op = "_get_policy_by_member" /\ call.state = "returned"

\* C4: with a group table, _get_policy_by_member returns the rules of the
\* first policy in list order that matches the caller (by name, by "*", or by
\* "Anonymous" for the anonymous caller), and None exactly when none matches.
C4_FirstMatchingPolicy ==
    (GetPolicyReturned /\ groups.some) =>
        LET S == MatchingPolicies(groups.v, call.username, call.policies)
        IN  /\ S # {} => call.result =
                             Return(Some(call.policies[First(S)].rules))
            /\ S = {} => call.result = Return(None)

\* The anonymous caller: the first policy's group lacks "Anonymous", the
\* second's holds it, and the second policy's rules are returned.
C4_Witness ==
    /\ GetPolicyReturned
    /\ groups.some
    /\ call.username = None
    /\ Len(call.policies) = 2
    /\ call.policies[1].rules # call.policies[2].rules
    /\ call.policies[1].members # <<>>
    /\ MatchingPolicies(groups.v, call.username, call.policies) = {2}
    /\ \A g \in DOMAIN groups.v : "*" \notin groups.v[g]
    /\ call.result = Return(Some(call.policies[2].rules))

(***************************************************************************)
(* Config._default_rule and Config.get_rules                               *)
(*                                                                         *)
(* A policy rule is [hosts, has_policies, policies, default]: has_policies *)
(* is `"policies" in rule`.  A payload is [user, action, host]: its user,  *)
(* the Action derived from its method and URI, and payload.get_host().     *)
(***************************************************************************)
_default_rule(rule) == ChecksAdd(Checks, rule.default)

\* Lines 77-88 without the fallback on an empty check set.
ResolveRule_no_empty_fallback(self_groups, rule, payload) ==
    IF ~rule.has_policies THEN Return(Some(_default_rule(rule)))
    ELSE
      LET found == _get_policy_by_member(self_groups, payload.user, rule.policies)
      IN  IF found.exc # "" THEN Raise(found.exc)
          ELSE IF ~found.ret.some THEN Return(Some(_default_rule(rule)))
          ELSE Return(Some(_match_rules(payload.action, found.ret.v)))

\* Lines 77-88: what get_rules returns from the rule whose hosts matched.
ResolveRule(self_groups, rule, payload) ==
    IF ~rule.has_policies THEN Return(Some(_default_rule(rule)))
    ELSE
      LET found == _get_policy_by_member(self_groups, payload.user, rule.policies)
      IN  IF found.exc # "" THEN Raise(found.exc)
          ELSE IF ~found.ret.some THEN Return(Some(_default_rule(rule)))
          ELSE
            LET rules == _match_rules(payload.action, found.ret.v)
            IN  IF ChecksEmpty(rules) THEN Return(Some(_default_rule(rule)))
                ELSE Return(Some(rules))

\* A broken loop: a rule that resolves to no policy or to no check is passed
\* over, and its default is used only when no later rule matches the host.
RECURSIVE GetRulesLoop_advance(_, _, _, _)
GetRulesLoop_advance(self_groups, rules, payload, k) ==
    IF k > Len(rules) THEN Return(None)
    ELSE
      LET rule == rules[k]
          host == _match_host(payload.host, rule.hosts)
          here == ResolveRule(self_groups, rule, payload)
          later == GetRulesLoop_advance(self_groups, rules, payload, k + 1)
      IN  IF host.exc # "" THEN Raise(host.exc)
          ELSE IF ~host.ret THEN later
          ELSE IF here = Return(Some(_default_rule(rule)))
                  /\ later.exc = "" /\ later.ret.some THEN later
          ELSE here

\* The for loop of get_rules from rule k on; falling off its end returns None.
RECURSIVE GetRulesLoop(_, _, _, _)
GetRulesLoop(self_groups, rules, payload, k) ==
    IF k > Len(rules) THEN Return(None)
    ELSE
      LET rule == rules[k]
          host == _match_host(payload.host, rule.hosts)
      IN  IF host.exc # "" THEN Raise(host.exc)
          ELSE IF ~host.ret THEN GetRulesLoop(self_groups, rules, payload, k + 1)
          ELSE ResolveRule(self_groups, rule, payload)

\* `for rule in self.policies` raises TypeError when self.policies is None.
get_rules(self_groups, self_policies, payload) ==
    IF ~self_policies.some THEN Raise("TypeError")
    ELSE GetRulesLoop(self_groups, self_policies.v, payload, 1)

(***************************************************************************)
(* Config.update and Config.__init__                                       *)
(***************************************************************************)
\* dict.update: the keys of both, the other's value where both have the key.
DictUpdate(d, other) ==
    [k \in DOMAIN d \cup DOMAIN other |->
        IF k \in DOMAIN other THEN other[k] ELSE d[k]]

\* Lines 53-57 with the merge lost: the new dict always replaces the old.
UpdateGroups_replace(self_groups, new_groups) ==
    IF Truthy(new_groups) THEN new_groups ELSE self_groups

\* Lines 53-57: self.groups after update(groups=new_groups).
UpdateGroups(self_groups, new_groups) ==
    IF Truthy(new_groups) THEN
        IF Truthy(self_groups) THEN Some(DictUpdate(self_groups.v, new_groups.v))
        ELSE new_groups
    ELSE self_groups

\* Lines 59-60: self.policies after update(policies=new_policies).
UpdatePolicies(self_policies, new_policies) ==
    IF Truthy(new_policies) THEN new_policies ELSE self_policies

(***************************************************************************)
(* The policy store as a state machine: a Config is constructed, updated   *)
(* and asked for the rules of payloads.                                    *)
(***************************************************************************)
Payloads ==
    [user : {None, Some("alice")},
     action : Actions,
     host : { <<"w">>, <<"d">> }]

\* Host rules: 'w...' hosts; every host but 'w...' (a '-' overriding a '+');
\* a list with an entry that has no sign.
HostRuleLists ==
    { << <<"+", "w">> >>,
      << <<"+", ".", "*">>, <<"-", "w">> >>,
      << <<"+", ".", "*">>, <<"d">> >> }

PolicyA == [members |-> <<"admins">>, rules |-> RulesA]
PolicyG == [members |-> <<"guests">>, rules |-> RulesB]

DefaultChecks ==
    { [check |-> "Deny", args |-> "None"], [check |-> "ReadOnly", args |-> "None"] }

\* Rules without the "policies" key, with an empty list of policies and
\* with two policies.
Rules ==
    [hosts : HostRuleLists, has_policies : {FALSE}, policies : {<<>>},
     default : DefaultChecks]
    \cup
    [hosts : HostRuleLists, has_policies : {TRUE},
     policies : { <<>>, <<PolicyG, PolicyA>> },
     default : DefaultChecks]

\* The groups a Config is given: none, an empty dict, or one of three tables
\* that share keys with different members.
GroupArgs ==
    { None, Some(<<>>),
      Some([admins |-> {"alice"}, users |-> {"alice"}]),
      Some([admins |-> {"bob"}, guests |-> {"Anonymous"}]),
      Some([guests |-> {"*"}]) }

\* Config.get_rules(payload): reads the configuration, changes nothing.
GetRules ==
    \E payload \in Payloads :
        /\ call' = [op |-> "get_rules", state |-> "returned", payload |-> payload,
                    result |-> get_rules(groups, policies, payload)]
        /\ UNCHANGED <<groups, policies, updates, upd, rdr>>

\* Config(groups, policies): __init__ calls update on the class defaults.
InitRules ==
    /\ \E g \in GroupArgs : groups = UpdateGroups(None, g)
    /\ \E p \in {None} \cup {Some(l) : l \in SeqsUpTo(Rules, MaxRules)} :
          policies = UpdatePolicies(None, p)
    /\ updates = <<>>
    /\ upd = Idle
    /\ rdr = Idle
    /\ call = NoCall

NextRules == GetRules

SpecRules == InitRules /\ [][NextRules]_vars

\* The claims' own words for the three stages of the cascade.
HostMatches(hostname, host_rules) ==
    LET M == MatchingEntries(hostname, host_rules)
    IN  /\ Signed(host_rules) = 1..Len(host_rules)
        /\ M # {}
        /\ host_rules[Last(M)][1] = "+"

\* The rules whose host rules match the payload's host.
HostMatchingRules(rules, payload) ==
    { k \in 1..Len(rules) : HostMatches(payload.host, rules[k].hosts) }

GroupTable == IF groups.some THEN groups.v ELSE <<>>

\* The check set that action resolution produces within a rule: empty when
\* the rule has no policies, when no policy matches the caller, and when
\* none of the three tiers is present in the selected policy's rules.
Resolved(rule, payload) ==
    LET S == MatchingPolicies(GroupTable, payload.user, rule.policies)
    IN  IF ~rule.has_policies \/ S = {} THEN <<>>
        ELSE
          LET actions == rule.policies[First(S)].rules
              P == PresentTiers(payload.action, actions)
          IN  IF P = {} THEN <<>>
              ELSE actions[Tiers(payload.action)[First(P)]]

GetRulesReturned ==
    call.op = "get_rules" /\ call.state = "returned" /\ call.result.exc = ""

\* The host rules of the rules 1..k all carry their signs.
SignedUpTo(rules, k) ==
    \A j \in 1..k : Signed(rules[j].hosts) = 1..Len(rules[j].hosts)

\* C1: whenever get_rules returns and some rule's host rule matches the
\* payload's host, the result is decided by the first such rule alone: its
\* resolved check set when that is not empty, and otherwise its default check
\* set, whatever the later rules would have produced.  And get_rules does
\* return when groups are stored and the host rules up to that rule are signed.
C1_FirstHostMatchingRuleOnly ==
    (call.op = "get_rules" /\ policies.some
       /\ HostMatchingRules(policies.v, call.payload) # {}) =>
        LET first == First(HostMatchingRules(policies.v, call.payload))
            rule == policies.v[first]
            checks == Resolved(rule, call.payload)
        IN  /\ GetRulesReturned =>
                  call.result.ret =
                    Some(IF checks = <<>> THEN <<rule.default>> ELSE checks)
            /\ (groups.some /\ SignedUpTo(policies.v, first)) => GetRulesReturned

\* The first host-matching rule fell back to its default although a later
\* rule matches the host too and resolves to a populated check set.
C1_Witness ==
    /\ GetRulesReturned
    /\ \E a, b \in HostMatchingRules(policies.v, call.payload) :
          /\ a = First(HostMatchingRules(policies.v, call.payload))
          /\ a < b
          /\ policies.v[a].has_policies
          /\ Resolved(policies.v[a], call.payload) = <<>>
          /\ Resolved(policies.v[b], call.payload) # <<>>
          /\ policies.v[a].default # policies.v[b].default
          /\ call.result.ret = Some(<<policies.v[a].default>>)

\* C2 as stated: whenever get_rules returns, its value is not None, also when
\* no rule's host rule matches the payload's host.
C2_NeverNone ==
    GetRulesReturned => call.result.ret.some

\* C2 amended: when some rule's host rule matches, the value get_rules returns
\* is a check set that holds at least one check, either the populated check
\* set of action resolution or the selected rule's default check set; when no
\* rule's host rule matches, get_rules returns None.
C2_NoneOnlyWithoutHostMatch ==
    GetRulesReturned =>
        LET M == HostMatchingRules(policies.v, call.payload)
        IN  IF M = {} THEN call.result.ret = None
            ELSE /\ call.result.ret.some
                 /\ call.result.ret.v # <<>>
                 /\ \/ call.result.ret.v = <<policies.v[First(M)].default>>
                    \/ call.result.ret.v = Resolved(policies.v[First(M)], call.payload)

\* Rules are configured, none matches the payload's host, None is returned.
C2_Witness ==
    /\ GetRulesReturned
    /\ Len(policies.v) >= 1
    /\ HostMatchingRules(policies.v, call.payload) = {}
    /\ call.result.ret = None

(***************************************************************************)
(* Updates of a Config built without arguments.                            *)
(***************************************************************************)
\* Two lists of policy rules that differ in every rule.
RulesOne ==
    << [hosts |-> << <<"+", "w">> >>, has_policies |-> TRUE,
        policies |-> <<PolicyG, PolicyA>>,
        default |-> [check |-> "Deny", args |-> "None"]] >>

RulesTwo ==
    << [hosts |-> << <<"+", ".", "*">>, <<"-", "w">> >>, has_policies |-> FALSE,
        policies |-> <<>>,
        default |-> [check |-> "ReadOnly", args |-> "None"]],
       [hosts |-> << <<"+", "w">> >>, has_policies |-> TRUE,
        policies |-> <<PolicyA>>,
        default |-> [check |-> "Deny", args |-> "None"]] >>

PolicyArgs == { None, Some(<<>>), Some(RulesOne), Some(RulesTwo) }

\* Config(): __init__ calls update(None, None) on the class defaults.
Init ==
    /\ groups = UpdateGroups(None, None)
    /\ policies = UpdatePolicies(None, None)
    /\ updates = <<>>
    /\ upd = Idle
    /\ rdr = Idle
    /\ call = NoCall

\* Config.update(new_groups, new_policies), run to its end.
Update ==
    \E new_groups \in GroupArgs, new_policies \in PolicyArgs :
        /\ Len(updates) < MaxUpdates
        /\ groups' = UpdateGroups(groups, new_groups)
        /\ policies' = UpdatePolicies(policies, new_policies)
        /\ updates' = Append(updates, [groups |-> new_groups, policies |-> new_policies])
        /\ call' = [op |-> "update", state |-> "returned"]
        /\ UNCHANGED <<upd, rdr>>

Next == Update \/ GetRules

Spec == Init /\ [][Next]_vars

\* The update calls that supplied groups, and those that supplied policies:
\* the argument holds at least one group, one policy rule.
SuppliedGroups == { k \in 1..Len(updates) : Truthy(updates[k].groups) }
SuppliedPolicies == { k \in 1..Len(updates) : Truthy(updates[k].policies) }

\* The key-wise merge of the supplied group maps in call order: every key of
\* any of them, with the members the last map holding the key gives it.
MergedGroups ==
    LET Holding(g) == { k \in SuppliedGroups : g \in DOMAIN updates[k].groups.v }
        Keys == UNION { DOMAIN updates[k].groups.v : k \in SuppliedGroups }
    IN  [g \in Keys |-> updates[Last(Holding(g))].groups.v[g]]

\* C7: after any sequence of update calls the stored groups are the key-wise
\* merge of all supplied group maps in call order, and the stored policy rules
\* are exactly the list of the most recent call that supplied policies (none
\* are stored when no call supplied any).
C7_GroupsMergedPoliciesReplaced ==
    /\ GroupTable = MergedGroups
    /\ SuppliedGroups = {} => ~groups.some
    /\ SuppliedPolicies # {} =>
          policies = updates[Last(SuppliedPolicies)].policies
    /\ SuppliedPolicies = {} => ~policies.some

\* Two calls supplied overlapping group maps and different policy lists: the
\* shared key has the later members, the other keys are kept, and the stored
\* policy rules are the later list alone.
C7_Witness ==
    /\ Len(updates) = 2
    /\ SuppliedGroups = {1, 2}
    /\ SuppliedPolicies = {1, 2}
    /\ updates[1].policies # updates[2].policies
    /\ \E g \in DOMAIN updates[1].groups.v \cap DOMAIN updates[2].groups.v :
          updates[1].groups.v[g] # updates[2].groups.v[g]
    /\ DOMAIN updates[1].groups.v # DOMAIN updates[2].groups.v
    /\ policies = updates[2].policies
    /\ DOMAIN groups.v = DOMAIN updates[1].groups.v \cup DOMAIN updates[2].groups.v

(***************************************************************************)
(* One thread in update and one thread in get_rules on the same Config.    *)
(* Neither method takes a lock.  update writes self.groups (lines 53-57)   *)
(* and then self.policies (lines 59-60); get_rules reads self.policies     *)
(* when its loop starts (line 73) and self.groups later, inside            *)
(* _get_policy_by_member (lines 147-150).  dict.update and an attribute    *)
(* assignment are each one step of the interpreter.                        *)
(***************************************************************************)
Config(g, p) == [groups |-> g, policies |-> p]

\* What the updating thread is given.
ConcGroupArgs ==
    { None,
      Some([admins |-> {"bob"}, guests |-> {"Anonymous"}]),
      Some([guests |-> {"*"}]) }

ConcPolicyArgs == { None, Some(RulesTwo) }

InitConc ==
    /\ \E g \in GroupArgs : groups = UpdateGroups(None, g)
    /\ \E p \in PolicyArgs : policies = UpdatePolicies(None, p)
    /\ updates = <<>>
    /\ upd = Idle
    /\ rdr = Idle
    /\ call = NoCall

\* update(new_groups, new_policies) is entered.  `before` and `after` are the
\* complete configurations on either side of the call; a get_rules call in
\* progress now runs beside both.
UpdateBegin ==
    \E new_groups \in ConcGroupArgs, new_policies \in ConcPolicyArgs :
        LET after == Config(UpdateGroups(groups, new_groups),
                            UpdatePolicies(policies, new_policies))
        IN  /\ upd.pc \in {"idle", "done"}
            /\ Len(updates) < MaxUpdates
            /\ upd' = [pc |-> "groups", groups |-> new_groups,
                       policies |-> new_policies,
                       before |-> Config(groups, policies), after |-> after]
            /\ updates' = Append(updates,
                                 [groups |-> new_groups, policies |-> new_policies])
            /\ rdr' = IF rdr.pc = "loop"
                      THEN [rdr EXCEPT !.complete = @ \cup {after}]
                      ELSE rdr
            /\ UNCHANGED <<groups, policies, call>>

\* Lines 53-57: self.groups is merged or set.
UpdateWriteGroups ==
    /\ upd.pc = "groups"
    /\ groups' = UpdateGroups(groups, upd.groups)
    /\ upd' = [upd EXCEPT !.pc = "policies"]
    /\ UNCHANGED <<policies, updates, call, rdr>>

\* Lines 59-60: self.policies is set, and update returns.
UpdateWritePolicies ==
    /\ upd.pc = "policies"
    /\ policies' = UpdatePolicies(policies, upd.policies)
    /\ upd' = [upd EXCEPT !.pc = "done"]
    /\ UNCHANGED <<groups, updates, call, rdr>>

\* Lines 69-73: get_rules(payload) is entered and its loop takes the list
\* self.policies refers to.  `complete` holds the complete configurations
\* the call runs beside: the current one, or those before and after the
\* update in progress.
ReadPolicies ==
    \E payload \in Payloads :
        /\ rdr.pc \in {"idle", "done"}
        /\ rdr' = [pc |-> "loop", payload |-> payload, rules |-> policies,
                   complete |-> IF upd.pc \in {"groups", "policies"}
                                THEN {upd.before, upd.after}
                                ELSE {Config(groups, policies)},
                   result |-> Return(None)]
        /\ UNCHANGED <<groups, policies, updates, call, upd>>

\* Lines 73-88: the loop runs over the list taken at line 73 and looks the
\* caller up in self.groups as it is now; get_rules returns.
ReadGroupsAndReturn ==
    /\ rdr.pc = "loop"
    /\ rdr' = [rdr EXCEPT !.pc = "done",
                          !.result = get_rules(groups, rdr.rules, rdr.payload)]
    /\ call' = [op |-> "get_rules", state |-> "returned", payload |-> rdr.payload,
                result |-> rdr'.result]
    /\ UNCHANGED <<groups, policies, updates, upd>>

NextConc ==
    \/ UpdateBegin
    \/ UpdateWriteGroups
    \/ UpdateWritePolicies
    \/ ReadPolicies
    \/ ReadGroupsAndReturn

SpecConc == InitConc /\ [][NextConc]_vars

\* C8: every get_rules call that runs beside update calls returns what it
\* would return on one of the complete configurations, the one from before
\* an update or the one from after it; it never resolves against the new
\* groups together with the old policy rules.
C8_ReadersSeeCompleteConfigurations ==
    rdr.pc = "done" =>
        \E c \in rdr.complete :
            rdr.result = get_rules(c.groups, c.policies, rdr.payload)

(***************************************************************************)
(* The name-matching check plugin, ContainerName.run(args, payload)        *)
(* (docker_leash/checks/container_name.py), as the specification and       *)
(* tests/checks/test_container_name.py describe it.  The user, the names   *)
(* and the patterns are those of the tests.                                *)
(***************************************************************************)
\* "User": "someone"
UserSomeone == <<"s", "o", "m", "e", "o", "n", "e">>

\* name=foo-bar
NameFooBar == <<"f", "o", "o", "-", "b", "a", "r">>
\* name=hard-biture
NameHardBiture == <<"h", "a", "r", "d", "-", "b", "i", "t", "u", "r", "e">>
\* name=someone-love-me
NameSomeoneLoveMe ==
    <<"s", "o", "m", "e", "o", "n", "e", "-", "l", "o", "v", "e", "-", "m",
      "e">>
\* name=someoneNAME-love-me
NameSomeoneNAME ==
    <<"s", "o", "m", "e", "o", "n", "e", "N", "A", "M", "E", "-", "l", "o",
      "v", "e", "-", "m", "e">>

\* ".*"
PatAny == <<".", "*">>
\* ".+"
PatSome == <<".", "+">>
\* the empty pattern
PatEmpty == <<>>
\* "^foo-.*"
PatFoo == <<"^", "f", "o", "o", "-", ".", "*">>
\* ".*oo.*"
PatOo == <<".", "*", "o", "o", ".", "*">>
\* "^hard-.*"
PatHard == <<"^", "h", "a", "r", "d", "-", ".", "*">>
\* "hard.*"
PatHardOpen == <<"h", "a", "r", "d", ".", "*">>
\* ".*biture"
PatBiture == <<".", "*", "b", "i", "t", "u", "r", "e">>
\* "hard-biture"
PatHardBiture == <<"h", "a", "r", "d", "-", "b", "i", "t", "u", "r", "e">>
\* "hard-bitur"
PatHardBitur == <<"h", "a", "r", "d", "-", "b", "i", "t", "u", "r">>
\* "^foobar.*"
PatFoobar == <<"^", "f", "o", "o", "b", "a", "r", ".", "*">>
\* "^bar-foo.*"
PatBarFoo == <<"^", "b", "a", "r", "-", "f", "o", "o", ".", "*">>
\* "bar-foo"
PatBarFooOpen == <<"b", "a", "r", "-", "f", "o", "o">>
\* "^mega-hard-biture.*"
PatMega ==
    <<"^", "m", "e", "g", "a", "-", "h", "a", "r", "d", "-", "b", "i", "t",
      "u", "r", "e", ".", "*">>
\* "ard-bitur"
PatArdBitur == <<"a", "r", "d", "-", "b", "i", "t", "u", "r">>
\* "^$USER-.*"
PatUser == <<"^", "$", "U", "S", "E", "R", "-", ".", "*">>
\* "^$USERNAME-.*"
PatUsername ==
    <<"^", "$", "U", "S", "E", "R", "N", "A", "M", "E", "-", ".", "*">>
\* "^\$USER-.*"
PatEscapedUser == <<"^", "\\", "$", "U", "S", "E", "R", "-", ".", "*">>

TestNames == { NameFooBar, NameHardBiture, NameSomeoneLoveMe, NameSomeoneNAME }

TestPatterns ==
    { PatAny, PatSome, PatEmpty, PatFoo, PatOo, PatHard,
      PatHardOpen, PatBiture, PatHardBiture, PatHardBitur, PatFoobar, PatBarFoo,
      PatBarFooOpen, PatMega, PatArdBitur, PatUser, PatUsername, PatEscapedUser }

\* The patterns the lists of the tests are made of, and one that matches
\* every name that is not empty.
ListPatterns == { PatFoo, PatUser, PatEscapedUser, PatSome }

UserToken == <<"$", "U", "S", "E", "R">>

\* The pattern with every $USER that is not escaped replaced by the user
\* name; a backslash keeps the character after it as it is.
RECURSIVE ReplaceUser(_, _, _)
ReplaceUser(pattern, i, user) ==
    IF i > Len(pattern) THEN <<>>
    ELSE IF pattern[i] = "\\" THEN
        SubSeq(pattern, i, i + 1) \o ReplaceUser(pattern, i + 2, user)
    ELSE IF i + 4 <= Len(pattern) /\ SubSeq(pattern, i, i + 4) = UserToken THEN
        user \o ReplaceUser(pattern, i + 5, user)
    ELSE <<pattern[i]>> \o ReplaceUser(pattern, i + 1, user)

replace_user(pattern, user) == ReplaceUser(pattern, 1, user)

\* A request: whether the payload has a RequestUri, the user, and the name
\* found in the query parameter or the trailing path segment (None if none).
Requests ==
    { [has_uri |-> FALSE, user |-> UserSomeone, name |-> None] }
    \cup
    [has_uri : {TRUE}, user : {UserSomeone},
     name : {None} \cup {Some(n) : n \in TestNames}]

\* The arguments of the check: None, one pattern, or a list of patterns.
PluginArgs ==
    { [kind |-> "None", patterns |-> <<>>] }
    \cup [kind : {"pattern"}, patterns : {<<q>> : q \in TestPatterns}]
    \cup [kind : {"list"},
          patterns : SeqsUpTo(ListPatterns, MaxPatterns) \ {<<>>}]

\* `not args`: None and the empty string.
ArgsEmpty(args) ==
    \/ args.kind = "None"
    \/ (args.kind = "pattern" /\ args.patterns[1] = <<>>)

\* A run in which every pattern of the list has to match.
run_all_patterns(args, request) ==
    IF ~request.has_uri THEN Raise("InvalidRequestException")
    ELSE IF ArgsEmpty(args) THEN Return(TRUE)
    ELSE
      LET name == IF request.name.some THEN request.name.v ELSE <<>>
      IN  IF \A k \in 1..Len(args.patterns) :
                re_match(replace_user(args.patterns[k], request.user), name)
          THEN Return(TRUE)
          ELSE Raise("UnauthorizedException")

\* A run that takes a request without a name for an invalid request.
run_name_required(args, request) ==
    IF ~request.has_uri \/ ~request.name.some THEN Raise("InvalidRequestException")
    ELSE IF ArgsEmpty(args) THEN Return(TRUE)
    ELSE
      LET name == request.name.v
      IN  IF \E k \in 1..Len(args.patterns) :
                re_match(replace_user(args.patterns[k], request.user), name)
          THEN Return(TRUE)
          ELSE Raise("UnauthorizedException")

\* ContainerName.run: an empty payload is an invalid request; empty arguments
\* pass; otherwise the name, empty when the request gives none, has to match
\* one of the patterns.
run(args, request) ==
    IF ~request.has_uri THEN Raise("InvalidRequestException")
    ELSE IF ArgsEmpty(args) THEN Return(TRUE)
    ELSE
      LET name == IF request.name.some THEN request.name.v ELSE <<>>
      IN  IF \E k \in 1..Len(args.patterns) :
                re_match(replace_user(args.patterns[k], request.user), name)
          THEN Return(TRUE)
          ELSE Raise("UnauthorizedException")

InitPlugin ==
    /\ groups = None
    /\ policies = None
    /\ updates = <<>>
    /\ upd = Idle
    /\ rdr = Idle
    /\ call \in [op : {"run"}, state : {"called"},
                 args : PluginArgs, request : Requests,
                 result : {Return(TRUE)}]
    \* The tests never run empty arguments on a request with a URI and no
    \* name, and the specification gives that run two outcomes.
    /\ ~(ArgsEmpty(call.args) /\ call.request.has_uri /\ ~call.request.name.some)

RunReturn ==
    /\ call.op = "run"
    /\ call.state = "called"
    /\ call' = [call EXCEPT !.state = "returned",
                            !.result = run(call.args, call.request)]
    /\ UNCHANGED <<groups, policies, updates, upd, rdr>>

NextPlugin == RunReturn

SpecPlugin == InitPlugin /\ [][NextPlugin]_vars

RunReturned == call.op = "run" /\ call.state = "returned"

\* The pattern, after the $USER substitution, matches from the start of the name.
PatternMatches(pattern, user, name) ==
    re_match(replace_user(pattern, user), name)

SomePatternMatches(args, user, name) ==
    \E k \in 1..Len(args.patterns) : PatternMatches(args.patterns[k], user, name)

\* C9: for a request from which a name is extracted, run passes when its
\* arguments are None or the empty string, passes when they are a list in
\* which a pattern matches the name, and raises UnauthorizedException when
\* they are a pattern or a list of patterns none of which matches.
C9_NameMatching ==
    (RunReturned /\ call.request.has_uri /\ call.request.name.some) =>
        LET args == call.args
            hit == SomePatternMatches(args, call.request.user, call.request.name.v)
        IN  /\ (args.kind = "None" \/ args.patterns = <<PatEmpty>>) =>
                  call.result = Return(TRUE)
            /\ (args.kind = "list" /\ hit) => call.result = Return(TRUE)
            /\ (args.kind \in {"pattern", "list"} /\ ~hit) =>
                  call.result = Raise("UnauthorizedException")

\* A list whose first pattern does not match the name and whose second one
\* matches it only thanks to the $USER substitution: the run passes.
C9_Witness ==
    /\ RunReturned
    /\ call.args.kind = "list"
    /\ Len(call.args.patterns) = 2
    /\ call.request.name = Some(NameSomeoneLoveMe)
    /\ ~PatternMatches(call.args.patterns[1], call.request.user, NameSomeoneLoveMe)
    /\ PatternMatches(call.args.patterns[2], call.request.user, NameSomeoneLoveMe)
    /\ ~re_match(call.args.patterns[2], NameSomeoneLoveMe)
    /\ call.result = Return(TRUE)

\* No name is derivable from the request: it has no URI, or its URI gives none.
NoNameDerivable(request) == ~request.has_uri \/ ~request.name.some

====
